---- MODULE Spec2Model ----
(***************************************************************************)
(* Model of src/app/page.tsx: the Page component reads index.html, applies *)
(* two regular expressions to it and returns a fragment of two nodes whose *)
(* raw markup is the captured style and body text.                         *)
(*                                                                         *)
(* A text is a sequence of one-character strings, so that the two regular  *)
(* expressions are evaluated character by character, as the engine does.   *)
(* The empty sequence << >> is the empty string "".  A match result is the *)
(* array String.prototype.match returns, << whole, group1 >>, and << >>    *)
(* stands for null.                                                        *)
(***************************************************************************)
EXTENDS Naturals, Sequences, FiniteSets

VARIABLES
    file,      \* state of index.html in the working directory
    pc,        \* per invocation: position in Page
    frame,     \* per invocation: the local constants of Page
    output,    \* per invocation: the nodes Page returned (<< >> if none)
    atRead,    \* per invocation: state of index.html when it was read
    reads,     \* per invocation: number of reads of index.html performed
    stale      \* per invocation: index.html was changed since it was invoked

vars == <<file, pc, frame, output, atRead, reads, stale>>

----------------------------------------------------------------------------
(* Bounds *)

MaxLen == 4
NumProcs == 2

Procs == 1..NumProcs

----------------------------------------------------------------------------
(* The literals of the two patterns *)

BODY == <<"b", "o", "d", "y">>
STYLE == <<"s", "t", "y", "l", "e">>

OpenLit(tag) == <<"<">> \o tag
CloseLit(tag) == <<"<", "/">> \o tag \o <<">">>

Min(S) == CHOOSE x \in S : \A y \in S : x <= y
Max(S) == CHOOSE x \in S : \A y \in S : x >= y

HasAt(s, i, lit) ==
    /\ i >= 1
    /\ i + Len(lit) - 1 <= Len(s)
    /\ \A j \in 1..Len(lit) : s[i + j - 1] = lit[j]

(* /<tag[^>]*>([\s\S]*?)<\/tag>/ tried at start position i: the set of     *)
(* <<k, c>> such that the literal <tag is at i, [^>]* takes the characters *)
(* i+Len(<tag) .. k-1 (none of them ">"), ">" is at k, [\s\S]*? takes the  *)
(* characters k+1 .. c-1 (any characters) and the literal </tag> is at c.  *)
Parses(s, i, tag) ==
    LET a == i + Len(OpenLit(tag))
        ks == {k \in a..Len(s) : s[k] = ">" /\ \A j \in a..(k - 1) : s[j] # ">"}
    IN  IF ~HasAt(s, i, OpenLit(tag)) THEN {}
        ELSE UNION {{<<k, c>> : c \in {d \in (k + 1)..Len(s) :
                                          HasAt(s, d, CloseLit(tag))}} : k \in ks}

(* The backtracking order: [^>]* is greedy (longest first), [\s\S]*? is    *)
(* lazy (shortest first); the leftmost start position that parses wins.    *)
GreedyK(P) == Max({kc[1] : kc \in P})

GreedyC(P, k) == Max({kc[2] : kc \in {x \in P : x[1] = k}})

LazyC(P, k) == Min({kc[2] : kc \in {x \in P : x[1] = k}})

FirstStart(S) == Min(S)

(* htmlContent.match(re) for a pattern without the g flag: null, or the    *)
(* array of the leftmost match, [0] the whole match and [1] the group.     *)
RegexMatch(s, tag) ==
    LET starts == {i \in 1..Len(s) : Parses(s, i, tag) # {}}
    IN  IF starts = {} THEN << >>
        ELSE LET i == FirstStart(starts)
                 P == Parses(s, i, tag)
                 k == GreedyK(P)
                 c == LazyC(P, k)
             IN  << SubSeq(s, i, c + Len(CloseLit(tag)) - 1),
                    SubSeq(s, k + 1, c - 1) >>

----------------------------------------------------------------------------
(* index.html and the texts it may hold *)

Text(t) == [kind |-> "text", data |-> t]
ENOENT == [kind |-> "ENOENT", data |-> << >>]
EACCES == [kind |-> "EACCES", data |-> << >>]
Unreadable == {ENOENT, EACCES}

(* The pieces the bounded texts are built from. *)
Pieces ==
    { <<"<", "b", "o", "d", "y", ">">>,
      <<"<", "/", "b", "o", "d", "y", ">">>,
      <<"<", "s", "t", "y", "l", "e", ">">>,
      <<"<", "/", "s", "t", "y", "l", "e", ">">>,
      <<"x">>,
      <<"<", "b", "o", "d", "y", " ", "a", "=", "\"">>,
      <<"<", "s", "t", "y", "l", "e", " ", "a", "=", "\"">>,
      <<"\"", ">">>,
      <<">">> }

RECURSIVE Concat(_)
Concat(ps) == IF ps = << >> THEN << >> ELSE Head(ps) \o Concat(Tail(ps))

(* The sequences of at most MaxLen pieces. *)
PieceSeqs == UNION {[1..n -> Pieces] : n \in 0..MaxLen}

OpenBody == OpenLit(BODY) \o <<">">>
OpenStyle == OpenLit(STYLE) \o <<">">>

(* The contents index.html takes in the specification of the invocations:  *)
(* a document with both regions, one without a style region, one whose     *)
(* body is never closed, and the two ways the file can be unreadable.      *)
DocFull == OpenStyle \o <<"x">> \o CloseLit(STYLE)
             \o OpenBody \o <<"x", "x">> \o CloseLit(BODY)
DocNoStyle == OpenBody \o <<"x">> \o CloseLit(BODY)
DocUnclosed == OpenBody \o <<"x">>

FileStates == {Text(DocFull), Text(DocNoStyle), Text(DocUnclosed)} \cup Unreadable

----------------------------------------------------------------------------
(* The statements of Page, as functions of its local constants *)

NoFrame ==
    [htmlContent |-> << >>, bodyMatch |-> << >>, styleMatch |-> << >>,
     bodyContent |-> << >>, styleContent |-> << >>]

(* A read that keeps the text of an earlier or concurrent invocation. *)
CachedReadFileSync(f) ==
    LET have == {q \in Procs : pc[q] \in {"matchBody", "matchStyle", "pickBody",
                                          "pickStyle", "return", "done"}}
    IN  IF have = {} THEN f.data
        ELSE frame[CHOOSE q \in have : TRUE].htmlContent

(* fs.readFileSync(htmlPath, "utf-8") on a readable file: its whole text. *)
ReadFileSync(f) == f.data

DoRead(fr, f) == [fr EXCEPT !.htmlContent = ReadFileSync(f)]

DoMatchBody(fr) == [fr EXCEPT !.bodyMatch = RegexMatch(fr.htmlContent, BODY)]

DoMatchStyle(fr) == [fr EXCEPT !.styleMatch = RegexMatch(fr.htmlContent, STYLE)]

(* bodyMatch ? bodyMatch[1] : htmlContent *)
PickBodyOrWhole(fr) ==
    [fr EXCEPT !.bodyContent =
        IF fr.bodyMatch # << >> THEN fr.bodyMatch[2] ELSE fr.htmlContent]

(* bodyMatch kept in a variable all invocations share *)
PickBodyShared(fr) ==
    [fr EXCEPT !.bodyContent =
        IF frame[1].bodyMatch # << >> THEN frame[1].bodyMatch[2] ELSE << >>]

(* bodyMatch ? bodyMatch[1] : "" *)
DoPickBody(fr) ==
    [fr EXCEPT !.bodyContent =
        IF fr.bodyMatch # << >> THEN fr.bodyMatch[2] ELSE << >>]

(* bodyMatch ? bodyMatch[1] : "" in the place of the style line *)
PickStyleFromBody(fr) ==
    [fr EXCEPT !.styleContent =
        IF fr.bodyMatch # << >> THEN fr.bodyMatch[2] ELSE << >>]

(* styleMatch ? styleMatch[1] : "" *)
DoPickStyle(fr) ==
    [fr EXCEPT !.styleContent =
        IF fr.styleMatch # << >> THEN fr.styleMatch[2] ELSE << >>]

RECURSIVE EscapedMarkup(_)
EscapedMarkup(s) ==
    IF s = << >> THEN << >>
    ELSE (IF Head(s) = "<" THEN <<"&", "l", "t", ";">> ELSE <<Head(s)>>)
           \o EscapedMarkup(Tail(s))

(* dangerouslySetInnerHTML={{ __html: s }}: s is the node's markup as is. *)
RawMarkup(s) == s

(* The returned fragment: the style node, then the div node. *)
Render(fr) ==
    << [tag |-> "style", html |-> RawMarkup(fr.styleContent)],
       [tag |-> "div", html |-> RawMarkup(fr.bodyContent)] >>

(* Page run to its return on a readable file. *)
PageFrame(f) == DoPickStyle(DoPickBody(DoMatchStyle(DoMatchBody(DoRead(NoFrame, f)))))

PageOutput(f) == Render(PageFrame(f))

----------------------------------------------------------------------------
(* The invocations of Page *)

NotRead == [kind |-> "none", data |-> << >>]

Finished == {"done", "error"}

Init ==
    /\ file \in FileStates
    /\ pc = [p \in Procs |-> "idle"]
    /\ frame = [p \in Procs |-> NoFrame]
    /\ output = [p \in Procs |-> << >>]
    /\ atRead = [p \in Procs |-> NotRead]
    /\ reads = [p \in Procs |-> 0]
    /\ stale = [p \in Procs |-> FALSE]

(* The hosting framework calls Page: a new activation, with no local set. *)
Invoke(p) ==
    /\ pc[p] \in {"idle"} \cup Finished
    /\ pc' = [pc EXCEPT ![p] = "read"]
    /\ frame' = [frame EXCEPT ![p] = NoFrame]
    /\ output' = [output EXCEPT ![p] = << >>]
    /\ atRead' = [atRead EXCEPT ![p] = NotRead]
    /\ reads' = [reads EXCEPT ![p] = 0]
    /\ stale' = [stale EXCEPT ![p] = FALSE]
    /\ UNCHANGED file

(* A read that removes the file it has read. *)
ReadConsume(p) ==
    /\ pc[p] = "read"
    /\ reads' = [reads EXCEPT ![p] = @ + 1]
    /\ atRead' = [atRead EXCEPT ![p] = file]
    /\ IF file.kind = "text"
         THEN /\ frame' = [frame EXCEPT ![p] = DoRead(@, file)]
              /\ pc' = [pc EXCEPT ![p] = "matchBody"]
              /\ file' = ENOENT
         ELSE /\ pc' = [pc EXCEPT ![p] = "error"]
              /\ UNCHANGED <<frame, file>>
    /\ UNCHANGED <<output, stale>>

(* A read whose failure is caught and replaced by the empty text. *)
ReadSwallow(p) ==
    /\ pc[p] = "read"
    /\ reads' = [reads EXCEPT ![p] = @ + 1]
    /\ atRead' = [atRead EXCEPT ![p] = file]
    /\ frame' = [frame EXCEPT ![p] = DoRead(@, file)]
    /\ pc' = [pc EXCEPT ![p] = "matchBody"]
    /\ UNCHANGED <<file, output, stale>>

(* const htmlContent = fs.readFileSync(htmlPath, "utf-8"): the text of the *)
(* file, or the exception readFileSync throws, which Page does not catch.  *)
Read(p) ==
    /\ pc[p] = "read"
    /\ reads' = [reads EXCEPT ![p] = @ + 1]
    /\ atRead' = [atRead EXCEPT ![p] = file]
    /\ IF file.kind = "text"
         THEN /\ frame' = [frame EXCEPT ![p] = DoRead(@, file)]
              /\ pc' = [pc EXCEPT ![p] = "matchBody"]
         ELSE /\ pc' = [pc EXCEPT ![p] = "error"]
              /\ UNCHANGED frame
    /\ UNCHANGED <<file, output, stale>>

MatchBody(p) ==
    /\ pc[p] = "matchBody"
    /\ frame' = [frame EXCEPT ![p] = DoMatchBody(@)]
    /\ pc' = [pc EXCEPT ![p] = "matchStyle"]
    /\ UNCHANGED <<file, output, atRead, reads, stale>>

MatchStyle(p) ==
    /\ pc[p] = "matchStyle"
    /\ frame' = [frame EXCEPT ![p] = DoMatchStyle(@)]
    /\ pc' = [pc EXCEPT ![p] = "pickBody"]
    /\ UNCHANGED <<file, output, atRead, reads, stale>>

PickBody(p) ==
    /\ pc[p] = "pickBody"
    /\ frame' = [frame EXCEPT ![p] = DoPickBody(@)]
    /\ pc' = [pc EXCEPT ![p] = "pickStyle"]
    /\ UNCHANGED <<file, output, atRead, reads, stale>>

PickStyle(p) ==
    /\ pc[p] = "pickStyle"
    /\ frame' = [frame EXCEPT ![p] = DoPickStyle(@)]
    /\ pc' = [pc EXCEPT ![p] = "return"]
    /\ UNCHANGED <<file, output, atRead, reads, stale>>

Return(p) ==
    /\ pc[p] = "return"
    /\ output' = [output EXCEPT ![p] = Render(frame[p])]
    /\ pc' = [pc EXCEPT ![p] = "done"]
    /\ UNCHANGED <<file, frame, atRead, reads, stale>>

(* The owner of index.html replaces, removes or protects it. *)
ExternalChange ==
    /\ \E f \in FileStates \ {file} : file' = f
    /\ stale' = [p \in Procs |-> pc[p] # "idle"]
    /\ UNCHANGED <<pc, frame, output, atRead, reads>>

Step(p) ==
    \/ Invoke(p)
    \/ Read(p)
    \/ MatchBody(p)
    \/ MatchStyle(p)
    \/ PickBody(p)
    \/ PickStyle(p)
    \/ Return(p)

Next ==
    \/ \E p \in Procs : Step(p)
    \/ ExternalChange

Spec == Init /\ [][Next]_vars

----------------------------------------------------------------------------
(* One call of Page taken as a whole, on every text up to MaxLen pieces *)

InitExtract ==
    /\ \E ps \in PieceSeqs : file = Text(Concat(ps))
    /\ pc = [p \in Procs |-> "idle"]
    /\ frame = [p \in Procs |-> NoFrame]
    /\ output = [p \in Procs |-> << >>]
    /\ atRead = [p \in Procs |-> NotRead]
    /\ reads = [p \in Procs |-> 0]
    /\ stale = [p \in Procs |-> FALSE]

(* Page from its call to its return or its exception: lines 5 to 20. *)
Page(p) ==
    /\ pc[p] = "idle"
    /\ reads' = [reads EXCEPT ![p] = 1]
    /\ atRead' = [atRead EXCEPT ![p] = file]
    /\ IF file.kind = "text"
         THEN /\ frame' = [frame EXCEPT ![p] = PageFrame(file)]
              /\ output' = [output EXCEPT ![p] = Render(frame'[p])]
              /\ pc' = [pc EXCEPT ![p] = "done"]
         ELSE /\ pc' = [pc EXCEPT ![p] = "error"]
              /\ UNCHANGED <<frame, output>>
    /\ UNCHANGED <<file, stale>>

NextExtract == Page(1)

SpecExtract == InitExtract /\ [][NextExtract]_vars

----------------------------------------------------------------------------
(* What the fragments should be, stated on the text alone *)

Occurs(s, lit) == {i \in 1..Len(s) : HasAt(s, i, lit)}

Gts(s, a) == {k \in a..Len(s) : s[k] = ">"}

ClosesAfter(s, k, tag) == {c \in Occurs(s, CloseLit(tag)) : c > k}

(* The opening tags of `tag` in s that a closing tag of `tag` follows: an  *)
(* opening tag runs from "<tag" to the next ">".                           *)
Regions(s, tag) ==
    {i \in Occurs(s, OpenLit(tag)) :
        \E k \in Gts(s, i + Len(OpenLit(tag))) : ClosesAfter(s, k, tag) # {}}

(* The text strictly between the end of the first such opening tag and the *)
(* first closing tag after it; "" when there is no such opening tag.       *)
ExpectedFragment(s, tag) ==
    IF Regions(s, tag) = {} THEN << >>
    ELSE LET i == Min(Regions(s, tag))
             k == Min(Gts(s, i + Len(OpenLit(tag))))
             c == Min(ClosesAfter(s, k, tag))
         IN  SubSeq(s, k + 1, c - 1)

ExpectedOutput(s) ==
    << [tag |-> "style", html |-> ExpectedFragment(s, STYLE)],
       [tag |-> "div", html |-> ExpectedFragment(s, BODY)] >>

FragmentOf(fr, tag) == IF tag = BODY THEN fr.bodyContent ELSE fr.styleContent

IsSubstring(f, s) == \E i \in 1..(Len(s) + 1) : SubSeq(s, i, i + Len(f) - 1) = f

Tags == {BODY, STYLE}

----------------------------------------------------------------------------
----------------------------------------------------------------------------
(* An opening tag with attributes as an HTML reader delimits it: after the *)
(* tag name comes white space and the attribute text, and the tag ends at  *)
(* the first ">" that is not inside a double-quoted attribute value.       *)

QuotesIn(s, a, b) == Cardinality({j \in a..b : s[j] = "\""})

HtmlTagEnds(s, a) == {k \in Gts(s, a) : QuotesIn(s, a, k - 1) % 2 = 0}

AttrStart(s, tag) == Min(Occurs(s, OpenLit(tag))) + Len(OpenLit(tag))

CarriesAttributes(s, tag) ==
    /\ Occurs(s, OpenLit(tag)) # {}
    /\ AttrStart(s, tag) <= Len(s)
    /\ s[AttrStart(s, tag)] = " "
    /\ HtmlTagEnds(s, AttrStart(s, tag)) # {}
    /\ ClosesAfter(s, Min(HtmlTagEnds(s, AttrStart(s, tag))), tag) # {}

InnerContents(s, tag) ==
    LET k == Min(HtmlTagEnds(s, AttrStart(s, tag)))
    IN  SubSeq(s, k + 1, Min(ClosesAfter(s, k, tag)) - 1)

(* C2: when the first opening tag of T carries attributes, whatever the    *)
(* attribute text is, the T fragment is the inner contents of the element  *)
(* and holds no part of the attribute text.                                *)
C2_AttributesIgnored ==
    \A p \in Procs : \A tag \in Tags :
        (pc[p] = "done" /\ CarriesAttributes(atRead[p].data, tag))
            => FragmentOf(frame[p], tag) = InnerContents(atRead[p].data, tag)

(* C3: on a readable text with no opening tag of T, Page returns its two   *)
(* nodes, the T fragment is "" and the other fragment is extracted as on   *)
(* any other text.                                                         *)
C3_AbsentTagEmpty ==
    \A p \in Procs : \A tag \in Tags :
        (/\ pc[p] # "idle"
         /\ atRead[p].kind = "text"
         /\ Occurs(atRead[p].data, OpenLit(tag)) = {})
            => /\ pc[p] = "done"
               /\ Len(output[p]) = 2
               /\ FragmentOf(frame[p], tag) = << >>
               /\ \A other \in Tags \ {tag} :
                      FragmentOf(frame[p], other)
                          = ExpectedFragment(atRead[p].data, other)

(* A call has returned on a text without "<style" whose body holds "x". *)
C3_Witness ==
    /\ pc[1] = "done"
    /\ Occurs(atRead[1].data, OpenLit(STYLE)) = {}
    /\ frame[1].styleContent = << >>
    /\ frame[1].bodyContent = <<"x">>
    /\ Len(output[1]) = 2

(* C9: on a readable text on which neither pattern matches, Page returns   *)
(* without error and both nodes have empty markup.                         *)
C9_NoMatchNoError ==
    \A p \in Procs :
        (/\ pc[p] # "idle"
         /\ atRead[p].kind = "text"
         /\ Regions(atRead[p].data, BODY) = {}
         /\ Regions(atRead[p].data, STYLE) = {})
            => /\ pc[p] = "done"
               /\ output[p] = << [tag |-> "style", html |-> << >>],
                                 [tag |-> "div", html |-> << >>] >>

(* A call has returned on <body>x, whose body is never closed. *)
C9_Witness ==
    /\ pc[1] = "done"
    /\ atRead[1].data = DocUnclosed
    /\ output[1] = << [tag |-> "style", html |-> << >>],
                      [tag |-> "div", html |-> << >>] >>

(* C10: a call that returns emits exactly two nodes, the style node and    *)
(* then the div node; their markup is the style fragment and the body      *)
(* fragment, each a contiguous piece of the text read, character for       *)
(* character.  A call that has not returned has emitted nothing.           *)
C10_TwoNodesVerbatim ==
    \A p \in Procs :
        /\ pc[p] # "done" => output[p] = << >>
        /\ pc[p] = "done" =>
              /\ Len(output[p]) = 2
              /\ output[p][1].tag = "style"
              /\ output[p][2].tag = "div"
              /\ output[p][1].html = frame[p].styleContent
              /\ output[p][2].html = frame[p].bodyContent
              /\ output[p][1].html = ExpectedFragment(atRead[p].data, STYLE)
              /\ output[p][2].html = ExpectedFragment(atRead[p].data, BODY)
              /\ IsSubstring(output[p][1].html, atRead[p].data)
              /\ IsSubstring(output[p][2].html, atRead[p].data)

(* A call has returned with an empty style fragment and a body fragment    *)
(* that holds markup of its own.                                           *)
C10_Witness ==
    /\ pc[1] = "done"
    /\ Len(output[1]) = 2
    /\ output[1][1].html = << >>
    /\ \E j \in 1..Len(output[1][2].html) : output[1][2].html[j] = "<"

----------------------------------------------------------------------------
(* C4: when index.html is missing or unreadable at the read, the call ends *)
(* in the error state: it has read once, matched nothing, picked nothing   *)
(* and emitted nothing, and it stays so until Page is called again.        *)
C4_UnreadableIsFatal ==
    \A p \in Procs :
        atRead[p] \in Unreadable
            => /\ pc[p] = "error"
               /\ frame[p] = NoFrame
               /\ output[p] = << >>
               /\ reads[p] = 1

(* One call has failed on a missing file and another on a protected one. *)
C4_Witness ==
    \E p, q \in Procs :
        /\ pc[p] = "error" /\ atRead[p] = ENOENT
        /\ pc[q] = "error" /\ atRead[q] = EACCES

(* C5: two calls made while index.html is not changed, one after the other *)
(* or overlapping, end alike: both fail, or both return the same nodes.    *)
C5_SameFileSameOutput ==
    \A p, q \in Procs :
        (pc[p] \in Finished /\ pc[q] \in Finished /\ ~stale[p] /\ ~stale[q])
            => pc[p] = pc[q] /\ output[p] = output[q]

(* Two calls have returned on the unchanged full document. *)
C5_Witness ==
    /\ pc[1] = "done" /\ pc[2] = "done"
    /\ ~stale[1] /\ ~stale[2]
    /\ file = Text(DocFull)
    /\ output[1] = ExpectedOutput(DocFull)
    /\ output[2] = output[1]

(* C6: what a call holds and returns is the extraction of the text that    *)
(* index.html held at that call's own read, whatever the file held before  *)
(* or holds now and whatever other calls have read or computed.            *)
C6_NoCaching ==
    \A p \in Procs :
        /\ pc[p] \in {"matchBody", "matchStyle", "pickBody", "pickStyle",
                      "return", "done"}
              => atRead[p].kind = "text" /\ frame[p].htmlContent = atRead[p].data
        /\ pc[p] = "done" => output[p] = ExpectedOutput(atRead[p].data)

(* A call returned the extraction of the full document, the file was then  *)
(* changed, and a later call returned the extraction of the new text.      *)
C6_Witness ==
    /\ pc[1] = "done" /\ stale[1]
    /\ output[1] = ExpectedOutput(DocFull)
    /\ pc[2] = "done" /\ ~stale[2]
    /\ file = Text(DocNoStyle)
    /\ output[2] = ExpectedOutput(DocNoStyle)
    /\ output[2] # output[1]

ReadOnlyStep ==
    /\ pc' # pc => file' = file
    /\ \A p \in Procs :
          /\ reads'[p] <= 1
          /\ pc'[p] \in {"idle", "read"} <=> reads'[p] = 0

(* C7: no step of Page changes index.html, and a call reads it exactly     *)
(* once: not before its read statement, once from then on, whether it      *)
(* returns or fails.                                                       *)
C7_ReadOnlyOneRead == [][ReadOnlyStep]_vars

(* A call has returned and another has failed, each after one read. *)
C7_Witness ==
    \E p, q \in Procs :
        /\ pc[p] = "done" /\ reads[p] = 1
        /\ pc[q] = "error" /\ reads[q] = 1

(* C8: while index.html is unchanged, a call that returns returns what a   *)
(* call running alone on that file returns, however its steps were         *)
(* interleaved with those of other calls.                                  *)
C8_NoInterference ==
    \A p \in Procs :
        (pc[p] = "done" /\ ~stale[p])
            => file.kind = "text" /\ output[p] = ExpectedOutput(file.data)

(* A call has returned on the full document while another call, begun on   *)
(* the same unchanged file, is between its match and its pick.             *)
C8_Witness ==
    /\ file = Text(DocFull)
    /\ pc[1] = "pickBody" /\ ~stale[1]
    /\ pc[2] = "done" /\ ~stale[2]
    /\ output[2] = ExpectedOutput(DocFull)

====
